---- MODULE Spec2Model ----
(***************************************************************************)
(* Model of the counter program (programs/counter/src/lib.rs): one Counter *)
(* account per user at the program-derived address of                      *)
(* [b"counter", user.key()], with the instructions initialize, increment,  *)
(* decrement and close.  An instruction is one atomic step of the ledger:  *)
(* account validation (the #[derive(Accounts)] structs), the handler body, *)
(* and the exit step (write-back, close) happen together or not at all.    *)
(***************************************************************************)
EXTENDS Integers, Sequences, FiniteSets, TLC

(***************************************************************************)
(* Bounds of the model.                                                    *)
(***************************************************************************)
\* width of Counter.count in the model; the program's u64 has 64 bits
CountBits == 2
\* lamports each wallet starts with
InitialLamports == 3
\* rent-exempt minimum for an account of 8 + Counter::INIT_SPACE bytes
RentExempt == 2
\* lamports above RentExempt that plain transfers may leave on one account
MaxExtra == 1

(***************************************************************************)
(* Program constants.                                                      *)
(***************************************************************************)
\* u64::MAX at the model's width
U64_MAX == 2^CountBits - 1

ProgramId == "counter"
SystemProgramId == "system"

\* The wallets (user public keys) and the bump seeds (u8) of the model.
Users == {"alice", "bob"}
Bumps == {254, 255}

\* Pubkey::default(), the authority of a Counter not yet written
DefaultPubkey == "default"

\* The bumps whose derived address lies off the curve: the derivation is a
\* fixed hash; here alice's canonical bump is 255 and 254 is valid too,
\* bob's canonical bump is 254 because 255 gives an address on the curve.
OffCurve(user) == IF user = "alice" THEN {254, 255} ELSE {254}

\* The address of a wallet, and the address derived from
\* [b"counter", user.key(), [bump]]: the derivation is a hash, modelled as
\* injective in (user, bump) and disjoint from the wallet keys.
WalletAddress(u) == [kind |-> "wallet", key |-> u, bump |-> 0]
PdaAddress(u, b) == [kind |-> "pda", key |-> u, bump |-> b]

Wallets == {WalletAddress(u) : u \in Users}
Pdas == {PdaAddress(u, b) : u \in Users, b \in Bumps}
Address == Wallets \cup Pdas

VARIABLES
    accounts,   \* the ledger: Address -> [lamports, owner, data]
    lastCall,   \* the most recent instruction: op, user (the signer), counter address
    result,     \* the result of the most recent instruction
    emitted,    \* the events emitted by the most recent instruction
    net         \* history: per address, the successful increments minus the
                \* successful decrements since the last successful initialize

vars == <<accounts, lastCall, result, emitted, net>>

(***************************************************************************)
(* Account data.  data is <<>> for an account without data and <<c>> for   *)
(* an account holding the Counter c.                                       *)
(***************************************************************************)
Counter(count, bump, authority) ==
    [count |-> count, bump |-> bump, authority |-> authority]

NoAccount == [lamports |-> 0, owner |-> SystemProgramId, data |-> <<>>]

\* Events
CounterInitialized(user, counter, count) ==
    [name |-> "CounterInitialized", user |-> user, counter |-> counter, count |-> count]

CounterUpdated(user, counter, previous_count, new_count, operation) ==
    [name |-> "CounterUpdated", user |-> user, counter |-> counter,
     previous_count |-> previous_count, new_count |-> new_count,
     operation |-> operation]

CounterClosed(user, counter, final_count) ==
    [name |-> "CounterClosed", user |-> user, counter |-> counter,
     final_count |-> final_count]

(***************************************************************************)
(* Address derivation.                                                     *)
(***************************************************************************)
Max(S) == CHOOSE x \in S : \A y \in S : y <= x

\* Pubkey::find_program_address: the highest bump whose address is off the curve.
find_program_address(user) ==
    LET b == Max(OffCurve(user)) IN [address |-> PdaAddress(user, b), bump |-> b]

\* Pubkey::create_program_address: <<>> when the address is on the curve.
create_program_address(user, bump) ==
    IF bump \in OffCurve(user) THEN <<PdaAddress(user, bump)>> ELSE <<>>

(***************************************************************************)
(* u64 arithmetic.  <<>> is None.                                          *)
(***************************************************************************)
\* (variant: wrapping_add, an addition that wraps instead of failing)
wrapping_add(x, y) == <<(x + y) % (U64_MAX + 1)>>

checked_add(x, y) == IF x + y > U64_MAX THEN <<>> ELSE <<x + y>>

\* (variant: wrapping_sub, a subtraction that wraps instead of failing)
wrapping_sub(x, y) == <<(x - y) % (U64_MAX + 1)>>

\* (variant: u64::saturating_sub)
saturating_sub(x, y) == IF x - y < 0 THEN <<0>> ELSE <<x - y>>

checked_sub(x, y) == IF x - y < 0 THEN <<>> ELSE <<x - y>>

(***************************************************************************)
(* The outcome of an instruction on a ledger: its result, the ledger after *)
(* it and the events it delivers.                                          *)
(***************************************************************************)
\* A failed instruction: the ledger rolls back every change and no event is delivered.
Failed(accts, err) == [result |-> err, accounts |-> accts, events |-> <<>>]

\* A successful instruction: the accounts are committed and the events delivered.
Committed(accts, events) == [result |-> "Ok", accounts |-> accts, events |-> events]

(***************************************************************************)
(* Account validation: the #[derive(Accounts)] structs.  Each yields "Ok"  *)
(* or the error of the first check that fails, in the order the checks     *)
(* run: the Account is loaded, then its constraints are checked (seeds,    *)
(* constraint, close).  user is the wallet that signed the transaction     *)
(* (Signer), and the transaction marks the accounts declared mut as        *)
(* writable: the ledger rejects any other transaction with no effect.      *)
(***************************************************************************)
\* Account<Counter>: the account must be initialized and owned by the program.
LoadCounter(accts, counter) ==
    LET info == accts[counter]
    IN  IF info.owner = SystemProgramId /\ info.lamports = 0 THEN "AccountNotInitialized"
        ELSE IF info.owner # ProgramId THEN "AccountOwnedByWrongProgram"
        ELSE "Ok"

\* lamports the payer must add so that the new account is rent exempt
RequiredLamports(accts, counter) ==
    IF accts[counter].lamports = 0 THEN RentExempt
    ELSE IF RentExempt > accts[counter].lamports
         THEN RentExempt - accts[counter].lamports
         ELSE 0

\* (variant: init_if_needed without a guard, which takes over an account in use)
InitializeIfNeeded(accts, user, counter) ==
    IF counter # find_program_address(user).address THEN "ConstraintSeeds"
    ELSE IF accts[WalletAddress(user)].lamports < RequiredLamports(accts, counter)
         THEN "InsufficientFunds"
    ELSE "Ok"

\* struct Initialize: counter is `init` at the canonical address of
\* [b"counter", user.key()], paid for by user.  An address without lamports
\* is created by the system program's create_account (allocate and assign,
\* then the transfer); one that holds lamports is topped up to the rent
\* exemption first, then allocated and assigned.  allocate refuses an
\* account that holds data or is not owned by the system program.
Initialize(accts, user, counter) ==
    LET info == accts[counter]
        payer == accts[WalletAddress(user)]
        inUse == info.data # <<>> \/ info.owner # SystemProgramId
        poor == payer.lamports < RequiredLamports(accts, counter)
    IN  IF counter # find_program_address(user).address THEN "ConstraintSeeds"
        ELSE IF info.lamports = 0
             THEN IF inUse THEN "AccountAlreadyInUse"
                  ELSE IF poor THEN "InsufficientFunds"
                  ELSE "Ok"
        ELSE IF poor THEN "InsufficientFunds"
        ELSE IF inUse THEN "AccountAlreadyInUse"
        ELSE "Ok"

\* struct Update: counter is mut, at the address of
\* [b"counter", user.key(), [counter.bump]], with authority == user.key().
Update(accts, user, counter) ==
    IF LoadCounter(accts, counter) # "Ok" THEN LoadCounter(accts, counter)
    ELSE IF create_program_address(user, accts[counter].data[1].bump) # <<counter>>
         THEN "ConstraintSeeds"
    ELSE IF accts[counter].data[1].authority # user THEN "Unauthorized"
    ELSE "Ok"

\* struct Close: as Update, and close = user.
Close(accts, user, counter) ==
    IF LoadCounter(accts, counter) # "Ok" THEN LoadCounter(accts, counter)
    ELSE IF create_program_address(user, accts[counter].data[1].bump) # <<counter>>
         THEN "ConstraintSeeds"
    ELSE IF accts[counter].data[1].authority # user THEN "Unauthorized"
    ELSE IF counter = WalletAddress(user) THEN "ConstraintClose"
    ELSE "Ok"

(***************************************************************************)
(* What the account attributes do to the ledger.                           *)
(***************************************************************************)
\* init: the system program funds, allocates and assigns the account.
InitAccount(accts, user, counter) ==
    LET need == RequiredLamports(accts, counter)
    IN  [accts EXCEPT
            ![WalletAddress(user)].lamports = @ - need,
            ![counter] = [lamports |-> @.lamports + need, owner |-> ProgramId,
                          data |-> <<Counter(0, 0, DefaultPubkey)>>]]

\* mut: at exit the handler's Counter is written back to the account.
WriteBack(accts, counter, data) ==
    [accts EXCEPT ![counter].data = <<data>>]

\* (variant: only the rent deposit is refunded, the rest stays at the address)
CloseAccountRentOnly(accts, user, counter) ==
    [accts EXCEPT
        ![WalletAddress(user)].lamports = @ + RentExempt,
        ![counter] = [lamports |-> accts[counter].lamports - RentExempt,
                      owner |-> SystemProgramId, data |-> <<>>]]

\* (variant: the lamports are paid out but the account keeps owner and data)
CloseAccountTombstone(accts, user, counter) ==
    [accts EXCEPT
        ![WalletAddress(user)].lamports = @ + accts[counter].lamports,
        ![counter].lamports = 0]

\* (variant: the close attribute is missing, the account is left as it is)
CloseAccountSkipped(accts, user, counter) == accts

\* close = user: at exit every lamport goes to user, and the account is
\* handed back to the system program with no data.
CloseAccount(accts, user, counter) ==
    [accts EXCEPT
        ![WalletAddress(user)].lamports = @ + accts[counter].lamports,
        ![counter] = NoAccount]

(***************************************************************************)
(* The handlers of mod counter.  Each takes the loaded Counter, its        *)
(* address and the user's key, and yields the error (or "Ok"), the Counter *)
(* as the handler leaves it, and the events it emits.                      *)
(***************************************************************************)
Handled(err, counter, events) == [err |-> err, counter |-> counter, events |-> events]

\* (variant: the bump is not stored)
initialize_without_bump(counter, key, user, bump) ==
    LET c == [counter EXCEPT !.count = 0, !.authority = user]
    IN  Handled("Ok", c, <<CounterInitialized(user, key, c.count)>>)

\* (variant: the authority is not stored)
initialize_without_authority(counter, key, user, bump) ==
    LET c == [counter EXCEPT !.count = 0, !.bump = bump]
    IN  Handled("Ok", c, <<CounterInitialized(user, key, c.count)>>)

initialize(counter, key, user, bump) ==
    LET c == [counter EXCEPT !.count = 0, !.bump = bump, !.authority = user]
    IN  Handled("Ok", c, <<CounterInitialized(user, key, c.count)>>)

\* (variant: the event carries the count read before the store as new_count)
increment_stale_event(counter, key, user) ==
    IF counter.authority # user THEN Handled("Unauthorized", counter, <<>>)
    ELSE LET previous_count == counter.count
             sum == checked_add(counter.count, 1)
         IN  IF sum = <<>> THEN Handled("CounterOverflow", counter, <<>>)
             ELSE Handled("Ok", [counter EXCEPT !.count = sum[1]],
                          <<CounterUpdated(user, key, previous_count, previous_count, "increment")>>)

\* (variant: the counter is stepped by two)
increment_by_two(counter, key, user) ==
    IF counter.authority # user THEN Handled("Unauthorized", counter, <<>>)
    ELSE LET previous_count == counter.count
             sum == checked_add(counter.count, 2)
         IN  IF sum = <<>> THEN Handled("CounterOverflow", counter, <<>>)
             ELSE Handled("Ok", [counter EXCEPT !.count = sum[1]],
                          <<CounterUpdated(user, key, previous_count, sum[1], "increment")>>)

\* (variant: the sum is computed and announced but never stored)
increment_not_stored(counter, key, user) ==
    IF counter.authority # user THEN Handled("Unauthorized", counter, <<>>)
    ELSE LET previous_count == counter.count
             sum == checked_add(counter.count, 1)
         IN  IF sum = <<>> THEN Handled("CounterOverflow", counter, <<>>)
             ELSE Handled("Ok", counter,
                          <<CounterUpdated(user, key, previous_count, sum[1], "increment")>>)

increment(counter, key, user) ==
    IF counter.authority # user THEN Handled("Unauthorized", counter, <<>>)
    ELSE LET previous_count == counter.count
             sum == checked_add(counter.count, 1)
         IN  IF sum = <<>> THEN Handled("CounterOverflow", counter, <<>>)
             ELSE Handled("Ok", [counter EXCEPT !.count = sum[1]],
                          <<CounterUpdated(user, key, previous_count, sum[1], "increment")>>)

\* (variant: the account is rebuilt from a fresh Counter, losing the bump)
decrement_rebuilds(counter, key, user) ==
    IF counter.authority # user THEN Handled("Unauthorized", counter, <<>>)
    ELSE LET previous_count == counter.count
             diff == checked_sub(counter.count, 1)
         IN  IF diff = <<>> THEN Handled("CounterUnderflow", counter, <<>>)
             ELSE Handled("Ok", Counter(diff[1], 0, user),
                          <<CounterUpdated(user, key, previous_count, diff[1], "decrement")>>)

\* (variant: the body of increment pasted into decrement, still adding)
decrement_adds(counter, key, user) ==
    IF counter.authority # user THEN Handled("Unauthorized", counter, <<>>)
    ELSE LET previous_count == counter.count
             diff == checked_add(counter.count, 1)
         IN  IF diff = <<>> THEN Handled("CounterUnderflow", counter, <<>>)
             ELSE Handled("Ok", [counter EXCEPT !.count = diff[1]],
                          <<CounterUpdated(user, key, previous_count, diff[1], "decrement")>>)

decrement(counter, key, user) ==
    IF counter.authority # user THEN Handled("Unauthorized", counter, <<>>)
    ELSE LET previous_count == counter.count
             diff == checked_sub(counter.count, 1)
         IN  IF diff = <<>> THEN Handled("CounterUnderflow", counter, <<>>)
             ELSE Handled("Ok", [counter EXCEPT !.count = diff[1]],
                          <<CounterUpdated(user, key, previous_count, diff[1], "decrement")>>)

\* (variant: the final count is reported as that of a fresh Counter)
close_reports_zero(counter, key, user) ==
    IF counter.authority # user THEN Handled("Unauthorized", counter, <<>>)
    ELSE Handled("Ok", counter, <<CounterClosed(user, key, 0)>>)

\* (variant: the CounterClosed event is not emitted)
close_silent(counter, key, user) ==
    IF counter.authority # user THEN Handled("Unauthorized", counter, <<>>)
    ELSE Handled("Ok", counter, <<>>)

\* (variant: only a counter at zero can be closed)
close_requires_zero(counter, key, user) ==
    IF counter.authority # user THEN Handled("Unauthorized", counter, <<>>)
    ELSE IF counter.count # 0 THEN Handled("Underflow", counter, <<>>)
    ELSE Handled("Ok", counter, <<CounterClosed(user, key, counter.count)>>)

close(counter, key, user) ==
    IF counter.authority # user THEN Handled("Unauthorized", counter, <<>>)
    ELSE LET final_count == counter.count
         IN  Handled("Ok", counter, <<CounterClosed(user, key, final_count)>>)

(***************************************************************************)
(* The instructions as functions of the ledger: validation, handler and    *)
(* exit.                                                                   *)
(***************************************************************************)
InitializeTx(accts, user, counter) ==
    LET v == Initialize(accts, user, counter)
    IN  IF v # "Ok" THEN Failed(accts, v)
        ELSE LET created == InitAccount(accts, user, counter)
                 h == initialize(created[counter].data[1], counter, user,
                                 find_program_address(user).bump)
             IN  IF h.err # "Ok" THEN Failed(accts, h.err)
                 ELSE Committed(WriteBack(created, counter, h.counter), h.events)

\* (variant: the counter is not bound to the signer: no seeds, no constraint,
\* and the handler compares the authority with itself)
IncrementTxAnySigner(accts, user, counter) ==
    LET v == LoadCounter(accts, counter)
    IN  IF v # "Ok" THEN Failed(accts, v)
        ELSE LET h == increment(accts[counter].data[1], counter,
                                accts[counter].data[1].authority)
             IN  IF h.err # "Ok" THEN Failed(accts, h.err)
                 ELSE Committed(WriteBack(accts, counter, h.counter), h.events)

IncrementTx(accts, user, counter) ==
    LET v == Update(accts, user, counter)
    IN  IF v # "Ok" THEN Failed(accts, v)
        ELSE LET h == increment(accts[counter].data[1], counter, user)
             IN  IF h.err # "Ok" THEN Failed(accts, h.err)
                 ELSE Committed(WriteBack(accts, counter, h.counter), h.events)

DecrementTx(accts, user, counter) ==
    LET v == Update(accts, user, counter)
    IN  IF v # "Ok" THEN Failed(accts, v)
        ELSE LET h == decrement(accts[counter].data[1], counter, user)
             IN  IF h.err # "Ok" THEN Failed(accts, h.err)
                 ELSE Committed(WriteBack(accts, counter, h.counter), h.events)

\* (variant: the counter is not bound to the signer, who receives the lamports)
CloseTxAnySigner(accts, user, counter) ==
    LET v == LoadCounter(accts, counter)
    IN  IF v # "Ok" THEN Failed(accts, v)
        ELSE LET h == close(accts[counter].data[1], counter,
                            accts[counter].data[1].authority)
             IN  IF h.err # "Ok" THEN Failed(accts, h.err)
                 ELSE Committed(CloseAccount(accts, user, counter), h.events)

CloseTx(accts, user, counter) ==
    LET v == Close(accts, user, counter)
    IN  IF v # "Ok" THEN Failed(accts, v)
        ELSE LET h == close(accts[counter].data[1], counter, user)
             IN  IF h.err # "Ok" THEN Failed(accts, h.err)
                 ELSE Committed(CloseAccount(accts, user, counter), h.events)

(***************************************************************************)
(* Initial state: no Counter account exists; each wallet holds             *)
(* InitialLamports.                                                        *)
(***************************************************************************)
Call(op, user, counter) == [op |-> op, user |-> user, counter |-> counter]

Init ==
    /\ accounts = [a \in Address |->
                     IF a \in Wallets
                     THEN [lamports |-> InitialLamports, owner |-> SystemProgramId, data |-> <<>>]
                     ELSE NoAccount]
    /\ lastCall = Call("none", "alice", WalletAddress("alice"))
    /\ result = "None"
    /\ emitted = <<>>
    /\ net = [a \in Address |-> 0]

(***************************************************************************)
(* The actions: one instruction is one atomic step of the ledger.          *)
(***************************************************************************)
InitializeIx(user, counter) ==
    LET out == InitializeTx(accounts, user, counter)
    IN  /\ lastCall' = Call("initialize", user, counter)
        /\ result' = out.result
        /\ emitted' = out.events
        /\ accounts' = out.accounts
        /\ net' = IF out.result = "Ok" THEN [net EXCEPT ![counter] = 0] ELSE net

IncrementIx(user, counter) ==
    LET out == IncrementTx(accounts, user, counter)
    IN  /\ lastCall' = Call("increment", user, counter)
        /\ result' = out.result
        /\ emitted' = out.events
        /\ accounts' = out.accounts
        /\ net' = IF out.result = "Ok" THEN [net EXCEPT ![counter] = @ + 1] ELSE net

DecrementIx(user, counter) ==
    LET out == DecrementTx(accounts, user, counter)
    IN  /\ lastCall' = Call("decrement", user, counter)
        /\ result' = out.result
        /\ emitted' = out.events
        /\ accounts' = out.accounts
        /\ net' = IF out.result = "Ok" THEN [net EXCEPT ![counter] = @ - 1] ELSE net

CloseIx(user, counter) ==
    LET out == CloseTx(accounts, user, counter)
    IN  /\ lastCall' = Call("close", user, counter)
        /\ result' = out.result
        /\ emitted' = out.events
        /\ accounts' = out.accounts
        /\ net' = IF out.result = "Ok" THEN [net EXCEPT ![counter] = 0] ELSE net

\* A plain system-program transfer of one lamport from any wallet to the
\* canonical counter address of any user: the ledger lets anyone fund any
\* address, before or after the Counter there is created.
Transfer(from, to) ==
    /\ from \in Wallets
    /\ \E u \in Users : to = find_program_address(u).address
    /\ accounts[from].lamports > 0
    /\ accounts[to].lamports < RentExempt + MaxExtra
    /\ accounts' = [accounts EXCEPT ![from].lamports = @ - 1, ![to].lamports = @ + 1]
    /\ UNCHANGED <<lastCall, result, emitted, net>>

Next ==
    \/ \E u \in Users, a \in Address : InitializeIx(u, a)
    \/ \E u \in Users, a \in Address : IncrementIx(u, a)
    \/ \E u \in Users, a \in Address : DecrementIx(u, a)
    \/ \E u \in Users, a \in Address : CloseIx(u, a)
    \/ \E from \in Wallets, to \in Address : Transfer(from, to)

Spec == Init /\ [][Next]_vars

(***************************************************************************)
(* Vocabulary of the properties.                                           *)
(***************************************************************************)
\* a Counter record exists at address a of ledger accts
HasCounter(accts, a) == accts[a].owner = ProgramId /\ accts[a].data # <<>>

CounterAt(accts, a) == accts[a].data[1]

\* the deterministic address of owner's record: f(b"counter", owner)
CounterAddress(owner) == find_program_address(owner).address

\* the addresses holding a record whose authority is owner
RecordsOf(owner) ==
    {a \in Address : HasCounter(accounts, a) /\ CounterAt(accounts, a).authority = owner}

\* the record at a exists and its authority is user
IsAuthority(user, a) ==
    HasCounter(accounts, a) /\ CounterAt(accounts, a).authority = user

\* this step is the instruction op, issued by user against address a
Step(op, user, a) ==
    \/ op = "initialize" /\ InitializeIx(user, a)
    \/ op = "increment" /\ IncrementIx(user, a)
    \/ op = "decrement" /\ DecrementIx(user, a)
    \/ op = "close" /\ CloseIx(user, a)

\* the step left the whole ledger as it was and delivered no event
NothingChanged == accounts' = accounts /\ emitted' = <<>>

(***************************************************************************)
(* Properties.                                                             *)
(***************************************************************************)
\* C1: every owner has at most one Counter record in every reachable state,
\* and an initialize issued by an owner whose record exists fails (at the
\* owner's derived address: the account is already in use) and leaves the
\* ledger, hence the record's count, authority and bump, unchanged.
C1_OneRecordPerOwner ==
    /\ [](\A o \in Users : Cardinality(RecordsOf(o)) <= 1)
    /\ [][\A o \in Users, a \in Address :
            (Step("initialize", o, a) /\ RecordsOf(o) # {}) =>
                /\ result' \in {"AccountAlreadyInUse", "ConstraintSeeds"}
                /\ (a = CounterAddress(o) => result' = "AccountAlreadyInUse")
                /\ NothingChanged]_vars

\* C1 witness: a second initialize was refused while the record, already
\* incremented, is still there.
C1_Witness ==
    /\ lastCall.op = "initialize"
    /\ result = "AccountAlreadyInUse"
    /\ IsAuthority(lastCall.user, lastCall.counter)
    /\ CounterAt(accounts, lastCall.counter).count > 0

\* C2: increment, decrement and close issued by a user other than the
\* authority of an existing record fail with Unauthorized and change nothing.
C2_NonAuthorityUnauthorized ==
    [][\A op \in {"increment", "decrement", "close"}, u \in Users, a \in Address :
            (Step(op, u, a) /\ HasCounter(accounts, a) /\ ~IsAuthority(u, a)) =>
                (result' = "Unauthorized" /\ NothingChanged)]_vars

\* C3: increment by the authority of a record whose count is u64::MAX fails
\* with CounterOverflow, leaves the ledger unchanged (the count stays at
\* u64::MAX, no wrap to 0) and emits no CounterUpdated.
C3_IncrementOverflow ==
    [][\A u \in Users, a \in Address :
            (Step("increment", u, a) /\ IsAuthority(u, a)
                /\ CounterAt(accounts, a).count = U64_MAX) =>
                /\ result' = "CounterOverflow"
                /\ CounterAt(accounts', a).count = U64_MAX
                /\ NothingChanged]_vars

\* C3 witness: an increment was refused with CounterOverflow at count u64::MAX.
C3_Witness ==
    /\ lastCall.op = "increment"
    /\ result = "CounterOverflow"
    /\ IsAuthority(lastCall.user, lastCall.counter)
    /\ CounterAt(accounts, lastCall.counter).count = U64_MAX

\* C4: decrement by the authority of a record whose count is 0 fails with
\* CounterUnderflow, leaves the ledger unchanged (the count stays at 0, no
\* wrap to u64::MAX) and emits no CounterUpdated.
C4_DecrementUnderflow ==
    [][\A u \in Users, a \in Address :
            (Step("decrement", u, a) /\ IsAuthority(u, a)
                /\ CounterAt(accounts, a).count = 0) =>
                /\ result' = "CounterUnderflow"
                /\ CounterAt(accounts', a).count = 0
                /\ NothingChanged]_vars

\* C4 witness: a decrement was refused with CounterUnderflow at count 0.
C4_Witness ==
    /\ lastCall.op = "decrement"
    /\ result = "CounterUnderflow"
    /\ IsAuthority(lastCall.user, lastCall.counter)
    /\ CounterAt(accounts, lastCall.counter).count = 0

\* C5: increment by the authority at count < u64::MAX succeeds and stores
\* exactly count + 1; decrement by the authority at count > 0 succeeds and
\* stores exactly count - 1; the check and the update are the same step, and
\* nothing else in the ledger changes.
C5_ExactStep ==
    [][\A u \in Users, a \in Address :
            /\ (Step("increment", u, a) /\ IsAuthority(u, a)
                    /\ CounterAt(accounts, a).count < U64_MAX) =>
                  /\ result' = "Ok"
                  /\ accounts' = [accounts EXCEPT ![a].data[1].count = @ + 1]
            /\ (Step("decrement", u, a) /\ IsAuthority(u, a)
                    /\ CounterAt(accounts, a).count > 0) =>
                  /\ result' = "Ok"
                  /\ accounts' = [accounts EXCEPT ![a].data[1].count = @ - 1]]_vars

\* C5 witness: a decrement by the authority brought the count from u64::MAX
\* to u64::MAX - 1.
C5_Witness ==
    /\ lastCall.op = "decrement"
    /\ result = "Ok"
    /\ IsAuthority(lastCall.user, lastCall.counter)
    /\ CounterAt(accounts, lastCall.counter).count = U64_MAX - 1
\* the count at address a after user's increment and then decrement, and
\* after user's decrement and then increment, run on the current ledger
\* with nothing in between (a failed instruction leaves the ledger as it was)
AfterIncDec(user, a) ==
    CounterAt(DecrementTx(IncrementTx(accounts, user, a).accounts, user, a).accounts, a).count

AfterDecInc(user, a) ==
    CounterAt(IncrementTx(DecrementTx(accounts, user, a).accounts, user, a).accounts, a).count

\* C6 as claimed: for every record and every count it may hold, increment
\* then decrement by the authority restores the count, and so does decrement
\* then increment.
C6_RoundTripEveryCount ==
    \A u \in Users, a \in Address :
        IsAuthority(u, a) =>
            /\ AfterIncDec(u, a) = CounterAt(accounts, a).count
            /\ AfterDecInc(u, a) = CounterAt(accounts, a).count

\* C6 amended: increment then decrement by the authority restores the whole
\* ledger when count < u64::MAX, and decrement then increment restores it
\* when count > 0.  At count = u64::MAX the increment fails and the decrement
\* that follows leaves u64::MAX - 1; at count = 0 the decrement fails and the
\* increment that follows leaves 1.
C6_RoundTrip ==
    \A u \in Users, a \in Address :
        IsAuthority(u, a) =>
            LET c == CounterAt(accounts, a).count
                incDec == DecrementTx(IncrementTx(accounts, u, a).accounts, u, a)
                decInc == IncrementTx(DecrementTx(accounts, u, a).accounts, u, a)
            IN  /\ c < U64_MAX => (incDec.result = "Ok" /\ incDec.accounts = accounts)
                /\ c > 0 => (decInc.result = "Ok" /\ decInc.accounts = accounts)
                /\ c = U64_MAX => AfterIncDec(u, a) = U64_MAX - 1
                /\ c = 0 => AfterDecInc(u, a) = 1

\* C6 witness: a record strictly between 0 and u64::MAX, reached by a
\* decrement, on which both round trips succeed.
C6_Witness ==
    /\ lastCall.op = "decrement"
    /\ result = "Ok"
    /\ IsAuthority(lastCall.user, lastCall.counter)
    /\ CounterAt(accounts, lastCall.counter).count \in 1..(U64_MAX - 1)
    /\ IncrementTx(accounts, lastCall.user, lastCall.counter).result = "Ok"
    /\ AfterIncDec(lastCall.user, lastCall.counter) = AfterDecInc(lastCall.user, lastCall.counter)

\* C7: a successful close leaves no record and no trace at the address: the
\* account is the empty system account again, an initialize by the same
\* owner run on the ledger right after the close succeeds with count 0
\* whatever count was closed, and at any later time an initialize by an
\* owner who can pay for the storage, at an address holding no record,
\* succeeds with count 0.
C7_NoTombstone ==
    /\ [][\A u \in Users, a \in Address :
            (Step("close", u, a) /\ result' = "Ok") =>
                /\ accounts'[a] = NoAccount
                /\ InitializeTx(accounts', u, a).result = "Ok"
                /\ CounterAt(InitializeTx(accounts', u, a).accounts, a).count = 0]_vars
    /\ [][\A u \in Users :
            (/\ Step("initialize", u, CounterAddress(u))
             /\ ~HasCounter(accounts, CounterAddress(u))
             /\ accounts[WalletAddress(u)].lamports
                    >= RequiredLamports(accounts, CounterAddress(u))) =>
                /\ result' = "Ok"
                /\ CounterAt(accounts', CounterAddress(u)).count = 0]_vars

\* C7 witness: a record with count > 0 has just been closed, its address is
\* empty, and initialize by the same owner would succeed there.
C7_Witness ==
    /\ lastCall.op = "close"
    /\ result = "Ok"
    /\ emitted[1].final_count > 0
    /\ accounts[lastCall.counter] = NoAccount
    /\ InitializeTx(accounts, lastCall.user, lastCall.counter).result = "Ok"

\* C8: a successful close leaves no record at the address, and while an
\* owner's address holds no record (closed, or never created) every
\* increment, decrement and close against it, by any user, fails and changes
\* nothing.
C8_CloseIsTerminal ==
    /\ [][\A u \in Users, a \in Address :
            (Step("close", u, a) /\ result' = "Ok") => ~HasCounter(accounts', a)]_vars
    /\ [][\A op \in {"increment", "decrement", "close"}, u \in Users, o \in Users :
            (Step(op, u, CounterAddress(o)) /\ ~HasCounter(accounts, CounterAddress(o))) =>
                /\ result' \in {"AccountNotInitialized", "AccountOwnedByWrongProgram"}
                /\ NothingChanged]_vars

\* C8 witness: the owner's increment against their own address, which holds
\* no record, was refused.
C8_Witness ==
    /\ lastCall.op = "increment"
    /\ lastCall.counter = CounterAddress(lastCall.user)
    /\ ~HasCounter(accounts, lastCall.counter)
    /\ result = "AccountNotInitialized"
    /\ emitted = <<>>

\* the record change that goes with a successful op at address a
Mutated(op, a) ==
    \/ op = "initialize" /\ ~HasCounter(accounts, a) /\ HasCounter(accounts', a)
    \/ op \in {"increment", "decrement"}
        /\ HasCounter(accounts, a) /\ HasCounter(accounts', a)
        /\ CounterAt(accounts', a).count # CounterAt(accounts, a).count
    \/ op = "close" /\ HasCounter(accounts, a) /\ ~HasCounter(accounts', a)

\* the event that goes with op
EventOf(op) ==
    IF op = "initialize" THEN "CounterInitialized"
    ELSE IF op = "close" THEN "CounterClosed"
    ELSE "CounterUpdated"

\* C9: every instruction either succeeds, changing the record and emitting
\* exactly one event, the one of its kind, or fails, changing nothing in the
\* ledger and emitting nothing; in every state the last instruction has
\* events exactly when it succeeded.
C9_AllOrNothing ==
    /\ [](emitted # <<>> <=> result = "Ok")
    /\ [][\A op \in {"initialize", "increment", "decrement", "close"},
            u \in Users, a \in Address :
            Step(op, u, a) =>
                \/ /\ result' = "Ok"
                   /\ Mutated(op, a)
                   /\ Len(emitted') = 1
                   /\ emitted'[1].name = EventOf(op)
                   /\ emitted'[1].counter = a
                \/ /\ result' # "Ok"
                   /\ NothingChanged]_vars

\* C9 witness: a close by a user who is not the authority failed and the
\* record is still there with no event emitted.
C9_Witness ==
    /\ lastCall.op = "close"
    /\ result # "Ok"
    /\ HasCounter(accounts, lastCall.counter)
    /\ ~IsAuthority(lastCall.user, lastCall.counter)
    /\ emitted = <<>>

\* C10: a successful initialize by user creates the record at the address
\* derived from (b"counter", user), with count 0, authority user and the
\* bump of that derivation, and emits CounterInitialized with that user,
\* that address and count 0.
C10_Create ==
    [][\A u \in Users, a \in Address :
            (Step("initialize", u, a) /\ result' = "Ok") =>
                /\ a = find_program_address(u).address
                /\ HasCounter(accounts', a)
                /\ CounterAt(accounts', a) = Counter(0, find_program_address(u).bump, u)
                /\ create_program_address(u, CounterAt(accounts', a).bump) = <<a>>
                /\ emitted' = <<CounterInitialized(u, a, 0)>>]_vars

\* C10 witness: bob's record was created with bob's canonical bump, which is
\* not the highest bump.
C10_Witness ==
    /\ lastCall.op = "initialize"
    /\ result = "Ok"
    /\ lastCall.user = "bob"
    /\ CounterAt(accounts, lastCall.counter) = Counter(0, 254, "bob")
\* C11: while a record exists its authority and bump never change, whatever
\* the step (increment or decrement, successful or failed, by any user), and
\* in every state they are the ones initialize set: the owner whose derived
\* address holds the record, and the bump of that derivation.
C11_AuthorityFixed ==
    /\ [](\A a \in Address :
            HasCounter(accounts, a) =>
                \E o \in Users :
                    /\ a = find_program_address(o).address
                    /\ CounterAt(accounts, a).authority = o
                    /\ CounterAt(accounts, a).bump = find_program_address(o).bump)
    /\ [][\A a \in Address :
            (HasCounter(accounts, a) /\ HasCounter(accounts', a)) =>
                /\ CounterAt(accounts', a).authority = CounterAt(accounts, a).authority
                /\ CounterAt(accounts', a).bump = CounterAt(accounts, a).bump]_vars

\* C11 witness: bob's record has been decremented and still carries bob and
\* bob's bump.
C11_Witness ==
    /\ lastCall.op = "decrement"
    /\ result = "Ok"
    /\ lastCall.user = "bob"
    /\ HasCounter(accounts, lastCall.counter)
    /\ CounterAt(accounts, lastCall.counter).authority = "bob"
    /\ CounterAt(accounts, lastCall.counter).bump = find_program_address("bob").bump

\* C12: every record's count lies in 0..u64::MAX, and across a step a record
\* that exists before and after keeps its count, or gains exactly 1 in a
\* successful increment against it, or loses exactly 1 in a successful
\* decrement against it; no other step changes a count.
C12_CountStepsByOne ==
    /\ [](\A a \in Address :
            HasCounter(accounts, a) => CounterAt(accounts, a).count \in 0..U64_MAX)
    /\ [][\A a \in Address :
            (HasCounter(accounts, a) /\ HasCounter(accounts', a)) =>
                LET d == CounterAt(accounts', a).count - CounterAt(accounts, a).count
                IN  \/ d = 0
                    \/ /\ d = 1
                       /\ result' = "Ok"
                       /\ \E u \in Users : Step("increment", u, a)
                    \/ /\ d = -1
                       /\ result' = "Ok"
                       /\ \E u \in Users : Step("decrement", u, a)]_vars

\* C12 witness: an increment has brought a record to u64::MAX.
C12_Witness ==
    /\ lastCall.op = "increment"
    /\ result = "Ok"
    /\ HasCounter(accounts, lastCall.counter)
    /\ CounterAt(accounts, lastCall.counter).count = U64_MAX
    /\ emitted[1].previous_count = U64_MAX - 1
\* the lamports user pays when initialize runs on ledger accts, and the
\* lamports user is credited when close runs on the ledger right after it
PaidAtCreate(accts, user) ==
    accts[WalletAddress(user)].lamports
        - InitializeTx(accts, user, CounterAddress(user)).accounts[WalletAddress(user)].lamports

CreditedAtClose(accts, user) ==
    LET created == InitializeTx(accts, user, CounterAddress(user)).accounts
    IN  CloseTx(created, user, CounterAddress(user)).accounts[WalletAddress(user)].lamports
            - created[WalletAddress(user)].lamports

\* C13 as claimed: whenever an owner can create their record, closing it
\* succeeds, leaves no lamports at the address and credits the owner with
\* exactly the amount the owner paid at the initialize.
C13_RefundEqualsDeposit ==
    \A u \in Users :
        LET a == CounterAddress(u)
            created == InitializeTx(accounts, u, a)
            closed == CloseTx(created.accounts, u, a)
        IN  created.result = "Ok" =>
                /\ closed.result = "Ok"
                /\ ~HasCounter(closed.accounts, a)
                /\ closed.accounts[a].lamports = 0
                /\ CreditedAtClose(accounts, u) = PaidAtCreate(accounts, u)

\* C13 amended: a successful close removes the record, credits the owner
\* with the whole balance of the account and leaves the address empty;
\* nothing else changes.  initialize charges the owner what is missing to
\* the rent-exempt minimum (all of it when the address holds no lamports),
\* a record's balance never falls below that minimum, so the credit is at
\* least the amount paid at initialize, and equal to it when the address
\* held no lamports before the initialize and received none after.
C13_RefundWholeBalance ==
    /\ [](\A a \in Address : HasCounter(accounts, a) => accounts[a].lamports >= RentExempt)
    /\ [](\A u \in Users :
            InitializeTx(accounts, u, CounterAddress(u)).result = "Ok" =>
                /\ PaidAtCreate(accounts, u) = RequiredLamports(accounts, CounterAddress(u))
                /\ CreditedAtClose(accounts, u)
                        = PaidAtCreate(accounts, u) + accounts[CounterAddress(u)].lamports
                /\ (accounts[CounterAddress(u)].lamports = 0 =>
                        /\ PaidAtCreate(accounts, u) = RentExempt
                        /\ CreditedAtClose(accounts, u) = RentExempt))
    /\ [][\A u \in Users, a \in Address :
            (Step("close", u, a) /\ result' = "Ok") =>
                accounts' = [accounts EXCEPT
                                ![WalletAddress(u)].lamports = @ + accounts[a].lamports,
                                ![a] = NoAccount]]_vars
    /\ [][\A u \in Users, a \in Address :
            (Step("initialize", u, a) /\ result' = "Ok") =>
                /\ accounts'[WalletAddress(u)].lamports
                        = accounts[WalletAddress(u)].lamports - RequiredLamports(accounts, a)
                /\ accounts'[a].lamports = accounts[a].lamports + RequiredLamports(accounts, a)
                /\ RequiredLamports(accounts, a) <= RentExempt]_vars
    /\ [][\A a \in Address :
            (HasCounter(accounts, a) /\ HasCounter(accounts', a)) =>
                accounts'[a].lamports >= accounts[a].lamports]_vars

\* C13 witness: a close has left its owner with more lamports than the
\* wallet ever held before, the record's address holding none.
C13_Witness ==
    /\ lastCall.op = "close"
    /\ result = "Ok"
    /\ accounts[lastCall.counter] = NoAccount
    /\ accounts[WalletAddress(lastCall.user)].lamports > InitialLamports
\* C14: a successful increment emits exactly one CounterUpdated, tagged
\* "increment", whose previous_count is the count before the step and whose
\* new_count is previous_count + 1 and the count stored after the step; a
\* successful decrement emits exactly one tagged "decrement" with new_count
\* = previous_count - 1, the stored count.
C14_UpdatedEvent ==
    [][\A u \in Users, a \in Address :
            /\ (Step("increment", u, a) /\ result' = "Ok") =>
                  LET previous == CounterAt(accounts, a).count
                  IN  /\ emitted' = <<CounterUpdated(u, a, previous, previous + 1, "increment")>>
                      /\ CounterAt(accounts', a).count = emitted'[1].new_count
            /\ (Step("decrement", u, a) /\ result' = "Ok") =>
                  LET previous == CounterAt(accounts, a).count
                  IN  /\ emitted' = <<CounterUpdated(u, a, previous, previous - 1, "decrement")>>
                      /\ CounterAt(accounts', a).count = emitted'[1].new_count]_vars

\* C14 witness: alice's first increment announced 0 -> 1.
C14_Witness ==
    /\ lastCall = Call("increment", "alice", CounterAddress("alice"))
    /\ result = "Ok"
    /\ emitted = <<CounterUpdated("alice", CounterAddress("alice"), 0, 1, "increment")>>
    /\ CounterAt(accounts, CounterAddress("alice")).count = 1

\* this step is an instruction (not a plain transfer)
InstructionStep ==
    \E op \in {"initialize", "increment", "decrement", "close"},
       u \in Users, a \in Address : Step(op, u, a)

\* C15: a successful close emits exactly one CounterClosed whose final_count
\* is the count the record held before the step, read from the record that
\* the same step then removes.  No event of that record follows it: an
\* instruction emits CounterUpdated or CounterClosed only for a record that
\* exists before it, and a record comes into existence only with a
\* CounterInitialized.
C15_ClosedEvent ==
    /\ [][\A u \in Users, a \in Address :
            (Step("close", u, a) /\ result' = "Ok") =>
                /\ HasCounter(accounts, a)
                /\ emitted' = <<CounterClosed(u, a, CounterAt(accounts, a).count)>>
                /\ ~HasCounter(accounts', a)]_vars
    /\ [][(InstructionStep /\ emitted' # <<>>
             /\ emitted'[1].name \in {"CounterUpdated", "CounterClosed"}) =>
                HasCounter(accounts, emitted'[1].counter)]_vars
    /\ [][\A a \in Address :
            (~HasCounter(accounts, a) /\ HasCounter(accounts', a)) =>
                /\ InstructionStep
                /\ Len(emitted') = 1
                /\ emitted'[1].name = "CounterInitialized"
                /\ emitted'[1].counter = a]_vars

\* C15 witness: alice closed her record at count 1 and CounterClosed says 1.
C15_Witness ==
    /\ lastCall = Call("close", "alice", CounterAddress("alice"))
    /\ result = "Ok"
    /\ emitted = <<CounterClosed("alice", CounterAddress("alice"), 1)>>
    /\ ~HasCounter(accounts, CounterAddress("alice"))
\* address b belongs to an owner other than user: it is the derived address
\* of another owner, or it holds a record whose authority is not user
BelongsToAnother(user, b) ==
    \/ \E o \in Users \ {user} : b = CounterAddress(o)
    \/ HasCounter(accounts, b) /\ CounterAt(accounts, b).authority # user

\* C16: an instruction issued by user, successful or failed, leaves every
\* account that belongs to another owner exactly as it was: the existence,
\* count, authority and bump of the other owners' records do not change.
C16_Isolation ==
    [][\A op \in {"initialize", "increment", "decrement", "close"},
          u \in Users, a \in Address :
            Step(op, u, a) =>
                \A b \in Address :
                    BelongsToAnother(u, b) => accounts'[b] = accounts[b]]_vars

\* C16 witness: bob has closed his own record while alice's record, at
\* count 2, is there.
C16_Witness ==
    /\ lastCall = Call("close", "bob", CounterAddress("bob"))
    /\ result = "Ok"
    /\ IsAuthority("alice", CounterAddress("alice"))
    /\ CounterAt(accounts, CounterAddress("alice")).count = 2

\* the validation of op's accounts struct on the current ledger
Validation(op, user, a) ==
    IF op = "close" THEN Close(accounts, user, a) ELSE Update(accounts, user, a)

\* C17: increment, decrement and close against a record whose address is not
\* the one derived from (b"counter", caller, the record's stored bump), or
\* whose authority is not the caller, are rejected by the validation of the
\* accounts, before the handler runs: nothing is written, nothing is
\* emitted, the record stays.
C17_ValidateFirst ==
    [][\A op \in {"increment", "decrement", "close"}, u \in Users, a \in Address :
            (/\ Step(op, u, a)
             /\ HasCounter(accounts, a)
             /\ \/ create_program_address(u, CounterAt(accounts, a).bump) # <<a>>
                \/ CounterAt(accounts, a).authority # u) =>
                /\ Validation(op, u, a) # "Ok"
                /\ result' = Validation(op, u, a)
                /\ NothingChanged
                /\ HasCounter(accounts', a)]_vars

\* C17 witness: a decrement by a user who is not the authority was rejected
\* at the seeds check; the record, at count > 0, is untouched.
C17_Witness ==
    /\ lastCall.op = "decrement"
    /\ HasCounter(accounts, lastCall.counter)
    /\ CounterAt(accounts, lastCall.counter).authority # lastCall.user
    /\ CounterAt(accounts, lastCall.counter).count > 0
    /\ result = "ConstraintSeeds"
    /\ emitted = <<>>

\* C18: every record sits at the derived address of its authority, so an
\* address that passes the seeds check for a user holds a record whose
\* authority is that user; whenever the validation of Update or Close passes
\* the handlers' require!(counter.authority == user.key()) holds, and no
\* instruction ever ends with Unauthorized.
C18_RequireNeverFails ==
    /\ result # "Unauthorized"
    /\ \A o \in Users :
        HasCounter(accounts, CounterAddress(o)) =>
            CounterAt(accounts, CounterAddress(o)).authority = o
    /\ \A u \in Users, a \in Address :
        HasCounter(accounts, a) =>
            /\ create_program_address(u, CounterAt(accounts, a).bump) = <<a>>
                    => CounterAt(accounts, a).authority = u
            /\ Update(accounts, u, a) = "Ok" =>
                    /\ increment(CounterAt(accounts, a), a, u).err # "Unauthorized"
                    /\ decrement(CounterAt(accounts, a), a, u).err # "Unauthorized"
            /\ Close(accounts, u, a) = "Ok" =>
                    close(CounterAt(accounts, a), a, u).err # "Unauthorized"

\* C18 witness: bob's record passes the validation for bob after bob's
\* second increment.
C18_Witness ==
    /\ lastCall = Call("increment", "bob", CounterAddress("bob"))
    /\ result = "Ok"
    /\ CounterAt(accounts, CounterAddress("bob")).count = 2
    /\ Update(accounts, "bob", CounterAddress("bob")) = "Ok"
    /\ Close(accounts, "bob", CounterAddress("bob")) = "Ok"
\* C19: the count of every existing record equals the number of successful
\* increments minus the number of successful decrements applied to it since
\* the initialize that created it.
C19_CountIsNet ==
    \A a \in Address :
        HasCounter(accounts, a) => CounterAt(accounts, a).count = net[a]

\* C19 witness: a record is at count 1 right after a successful decrement, so
\* both kinds of step have been counted.
C19_Witness ==
    /\ lastCall.op = "decrement"
    /\ result = "Ok"
    /\ HasCounter(accounts, lastCall.counter)
    /\ CounterAt(accounts, lastCall.counter).count = 1
    /\ net[lastCall.counter] = 1
\* C20: close has no precondition on count. In every reachable state, for
\* every record, whatever its count and its balance, close by its authority
\* would succeed and leave no record at the address; and every close the
\* authority issues does succeed and leaves the address empty, open to a new
\* initialize.
C20_CloseAlwaysPossible ==
    /\ [](\A a \in Address :
            HasCounter(accounts, a) =>
                LET out == CloseTx(accounts, CounterAt(accounts, a).authority, a)
                IN  /\ out.result = "Ok"
                    /\ ~HasCounter(out.accounts, a)
                    /\ out.accounts[a] = NoAccount)
    /\ [][\A u \in Users, a \in Address :
            Step("close", u, a) /\ IsAuthority(u, a) =>
                /\ result' = "Ok"
                /\ accounts'[a] = NoAccount
                /\ InitializeTx(accounts', u, a).result
                        \in {"Ok", "InsufficientFunds"}]_vars

\* C20 witness: a record at the largest count has been closed by its owner.
C20_Witness ==
    /\ lastCall.op = "close"
    /\ result = "Ok"
    /\ emitted = <<CounterClosed(lastCall.user, lastCall.counter, U64_MAX)>>
    /\ accounts[lastCall.counter] = NoAccount

====
